---- MODULE Spec2Model ----
(***************************************************************************)
(* SharkPad: the drawing canvas's layered image list, the asynchronous     *)
(* spellcheck pipeline, the voice dictation worker, save_file, the        *)
(* summarizer and the color bar, as one state machine per subsystem.  Each *)
(* specification (SpecCanvas, SpecLayers, SpecSpell, SpecApply,            *)
(* SpecWorker, SpecVoice, SpecVoiceLive, SpecMic, SpecFile, SpecSummary,   *)
(* SpecColors) runs the handlers of one subsystem and leaves the variables *)
(* of the subsystems it does not run at their initial values.              *)
(***************************************************************************)
EXTENDS Integers, Sequences, FiniteSets, TLC

VARIABLES
    \* ---- DrawingCanvas (src/drawing_operations.py)
    images,           \* self.images: list of ImageObject, bottom layer first
    selected_image,   \* self.selected_image: id of an ImageObject, or None
    mode,             \* self.mode: "draw" or "select"
    dragging_image,   \* self.dragging_image
    resizing_image,   \* self.resizing_image
    drag_start_pos,   \* self.drag_start_pos: a point, or None
    drawing,          \* self.drawing
    has_drawn,        \* self.has_drawn
    leftDown,         \* the mouse: is the left button held down
    \* ---- the editor and the spellcheck pipeline (src/ai_operations.py)
    text,             \* editor.toPlainText(): a sequence of characters
    cursor,           \* editor.textCursor(): [position, anchor]
    underlined,       \* the positions of the document with the error format
    ignored_words,    \* ignored_words
    dictionary,       \* spell.word_frequency: the known words
    worker_ref,       \* _worker_ref: the last SpellCheckWorker, or None
    orphans,          \* running SpellCheckWorkers nothing refers to any more
    last_text_hash,   \* _last_text_hash
    results,          \* results_ready emissions queued for the main thread
    debounce,         \* editor._spellcheck_timer: <<>> or <<ms remaining>>
    startup,          \* QTimer.singleShot(500, ...) of enable_spellcheck
    replace_timers,   \* the QTimer.singleShot(100, ...) of replace_word
    sinceChange,      \* ms since the last textChanged signal (saturating)
    burst,            \* textChanged signals since the last debounced check: 0, 1, 2 (or more)
    modified,         \* editor.document().isModified()
    \* ---- voice dictation (src/voice_operations.py)
    voice_worker_ref, \* _voice_worker_ref: <<>> (None) or <<the VoiceWorker>>
    voice_orphans,    \* running VoiceWorkers nothing refers to any more
    voice_main,       \* the main thread: idle, or blocked in VoiceWorker.stop()
    voice_signals,    \* signals of the workers queued for the main thread
    level,            \* the last audio level handed to level_callback
    libs_available,   \* WHISPER_AVAILABLE and sr is not None
    \* ---- the file system (src/file_operations.py)
    files,            \* path |-> contents of the files written so far
    \* ---- DrawingPad (src/drawing_operations.py)
    recent_colors,    \* self.recent_colors: color names, most recent first
    \* ---- the summarizer (src/summarization_operations.py) and the settings
    client,           \* FreeTeacherSummarizer.client: <<>> (None) or <<the client>>
    api_key,          \* QSettings value "api_key"
    \* ---- the window (src/main.py)
    current_sensitivity, \* current_sensitivity[0]: the 0-100 scale
    \* ---- the observer: the last handler that ran, its inputs and result
    call

spellVars == <<text, cursor, underlined, ignored_words, dictionary, worker_ref,
               orphans, last_text_hash, results, debounce, startup,
               replace_timers, sinceChange, burst, modified>>

voiceVars == <<voice_worker_ref, voice_orphans, voice_main, voice_signals,
               level, libs_available>>

fileVars == <<files>>

\* the threads of voice dictation: every step of one changes these
threadVars == <<voice_worker_ref, voice_orphans, voice_main>>

canvasVars == <<images, selected_image, mode, dragging_image, resizing_image,
                drag_start_pos, drawing, has_drawn, leftDown>>

restVars == <<recent_colors, client, api_key, current_sensitivity>>

vars == <<canvasVars, spellVars, voiceVars, fileVars, restVars, call>>

None == "None"

\* self.selected_image = NoImage: no image id
NoImage == 0

\* self.drag_start_pos = NoPos: no point
NoPos == <<>>

Max(a, b) == IF a >= b THEN a ELSE b

Min(a, b) == IF a <= b THEN a ELSE b

Range(s) == {s[i] : i \in 1..Len(s)}

-----------------------------------------------------------------------------
(* Bounds of the model                                                      *)

\* the most images the canvas holds when only their layers change (SpecLayers)
MaxImages == 3

\* the most images the canvas holds when they are also moved and resized
\* (SpecCanvas)
MaxMovedImages == 2

\* the longest text the editor holds
MaxLen == 1

\* the longest text a spellcheck worker is run on by itself (SpecWorker)
MaxCheckedLen == 3

\* the most results_ready emissions waiting in the main thread's event queue
MaxResults == 1

\* the most singleShot timers of replace_word pending at once
MaxReplaceTimers == 1


-----------------------------------------------------------------------------
(* DrawingCanvas and ImageObject                                           *)

pad_size_width == 450
pad_size_height == 400
\* add_image: max_size
max_size == 200
\* ImageObject.resize: the smallest width and height
min_size == 20
\* mousePressEvent: the side of the resize corner
corner_size == 10

\* The pixmaps a user uploads, as <<width, height>>; <<0, 0>> is a file that
\* does not load (pixmap.isNull()); <<300, 600>> is scaled down by add_image.
Pixmaps == {<<0, 0>>, <<30, 30>>, <<300, 600>>}

\* The pixmaps uploaded where images are also moved and resized.
MovedPixmaps == {<<0, 0>>, <<30, 30>>}

\* The points the mouse is pressed at and moved to.
MousePoints == {<<215, 190>>, <<235, 210>>}

Buttons == {"left", "right"}

\* QRect(x, y, width, height).contains(point)
contains_rect(x, y, w, h, p) ==
    /\ w > 0 /\ h > 0
    /\ x <= p[1] /\ p[1] <= x + w - 1
    /\ y <= p[2] /\ p[2] <= y + h - 1

\* ImageObject.contains_point
contains_point(img, p) == contains_rect(img.x, img.y, img.width, img.height, p)

\* QPixmap.scaled(max_size, max_size, Qt.KeepAspectRatio): QSize.scaled
scaled(w, h) ==
    LET rw == (max_size * w) \div h
    IN  IF rw <= max_size THEN <<rw, max_size>>
        ELSE <<max_size, (max_size * h) \div w>>

\* ImageObject.__init__
ImageObject(id, pm, x, y) ==
    [id |-> id, x |-> x, y |-> y, width |-> pm[1], height |-> pm[2],
     selected |-> FALSE]

\* ImageObject.move
move(img, dx, dy) == [img EXCEPT !.x = img.x + dx, !.y = img.y + dy]

\* resize with the height left unclamped
resize_unclamped_height(img, new_width, new_height) ==
    [img EXCEPT !.width = Max(min_size, new_width), !.height = new_height]

\* ImageObject.resize
resize(img, new_width, new_height) ==
    [img EXCEPT !.width = Max(min_size, new_width),
                !.height = Max(min_size, new_height)]

\* the ids of the images in the list
Ids(imgs) == {imgs[i].id : i \in 1..Len(imgs)}

\* self.images.index(obj): the position of the image with this id, 0 if absent
index(imgs, id) ==
    IF id \in Ids(imgs) THEN CHOOSE i \in 1..Len(imgs) : imgs[i].id = id ELSE 0

\* self.images.pop() in the place of remove(obj): the last image goes
remove_last(imgs, id) ==
    IF imgs = <<>> THEN imgs ELSE SubSeq(imgs, 1, Len(imgs) - 1)

\* self.images.remove(obj)
remove(imgs, id) ==
    LET i == index(imgs, id)
    IN  IF i = 0 THEN imgs
        ELSE SubSeq(imgs, 1, i - 1) \o SubSeq(imgs, i + 1, Len(imgs))

\* swapping two positions of the list
swap(imgs, i, j) == [imgs EXCEPT ![i] = imgs[j], ![j] = imgs[i]]

\* the selection marks left as they are
deselect_none(imgs) == imgs

\* for img in self.images: img.selected = False
deselect_all(imgs) == [i \in 1..Len(imgs) |-> [imgs[i] EXCEPT !.selected = FALSE]]

\* the hit test scanning the list from the bottom layer up
clicked_index_bottom_first(imgs, pos) ==
    LET hits == {i \in 1..Len(imgs) : contains_point(imgs[i], pos)}
    IN  IF hits = {} THEN 0
        ELSE CHOOSE i \in hits : \A j \in hits : i <= j

\* mousePressEvent: for img in reversed(self.images): the first that contains
\* the point, as its position in the list (0: clicked_image stays None)
clicked_index(imgs, pos) ==
    LET hits == {i \in 1..Len(imgs) : contains_point(imgs[i], pos)}
    IN  IF hits = {} THEN 0
        ELSE CHOOSE i \in hits : \A j \in hits : j <= i

CanvasInit ==
    /\ images = <<>>
    /\ selected_image = NoImage
    /\ mode = "draw"
    /\ dragging_image = FALSE
    /\ resizing_image = FALSE
    /\ drag_start_pos = NoPos
    /\ drawing = FALSE
    /\ has_drawn = FALSE
    /\ leftDown = FALSE

\* a handler of the canvas ran: the observer records it, the rest of the
\* application is untouched
Called(name, arg, ret) ==
    /\ call' = [name |-> name, arg |-> arg, ret |-> ret]
    /\ UNCHANGED <<spellVars, voiceVars, fileVars, restVars>>

\* DrawingCanvas.add_image: the file's pixmap is the input; the model holds
\* at most limit images
add_image(limit, pixmaps) ==
    \E pm \in pixmaps :
        /\ Len(images) < limit
        /\ IF pm[1] = 0 \/ pm[2] = 0
           THEN /\ Called("add_image", pm, "False")
                /\ UNCHANGED canvasVars
           ELSE LET pixmap == IF pm[1] > max_size \/ pm[2] > max_size
                              THEN scaled(pm[1], pm[2]) ELSE pm
                    x == (pad_size_width - pixmap[1]) \div 2
                    y == (pad_size_height - pixmap[2]) \div 2
                    id == CHOOSE n \in 1..limit : n \notin Ids(images)
                IN  /\ images' = Append(images, ImageObject(id, pixmap, x, y))
                    /\ has_drawn' = TRUE
                    /\ Called("add_image", pm, "True")
                    /\ UNCHANGED <<selected_image, mode, dragging_image,
                                   resizing_image, drag_start_pos, drawing,
                                   leftDown>>

\* DrawingCanvas.mousePressEvent
mousePressEvent ==
    \E pos \in MousePoints, button \in Buttons :
        /\ button = "left" => ~leftDown
        /\ Called("mousePressEvent", [pos |-> pos, button |-> button], None)
        /\ IF button # "left"
           THEN UNCHANGED canvasVars
           ELSE /\ leftDown' = TRUE
                /\ IF mode = "select"
                   THEN LET c == clicked_index(images, pos)
                            cleared == deselect_all(images)
                        IN  IF c # 0
                            THEN LET clicked_image == images[c]
                                     in_corner == contains_rect(
                                         clicked_image.x + clicked_image.width - corner_size,
                                         clicked_image.y + clicked_image.height - corner_size,
                                         corner_size, corner_size, pos)
                                 IN  /\ images' = [cleared EXCEPT ![c].selected = TRUE]
                                     /\ selected_image' = clicked_image.id
                                     /\ resizing_image' = (in_corner \/ resizing_image)
                                     /\ dragging_image' = (~in_corner \/ dragging_image)
                                     /\ drag_start_pos' = pos
                                     /\ UNCHANGED <<mode, drawing, has_drawn>>
                            ELSE /\ images' = cleared
                                 /\ selected_image' = NoImage
                                 /\ UNCHANGED <<mode, dragging_image, resizing_image,
                                                drag_start_pos, drawing, has_drawn>>
                   ELSE /\ drawing' = TRUE
                        /\ UNCHANGED <<images, selected_image, mode, dragging_image,
                                       resizing_image, drag_start_pos, has_drawn>>

\* DrawingCanvas.mouseMoveEvent; event.buttons() & Qt.LeftButton is leftDown
mouseMoveEvent ==
    \E pos \in MousePoints :
        LET sel == index(images, selected_image)
        IN  IF dragging_image /\ selected_image # NoImage /\ drag_start_pos # NoPos
            THEN LET dx == pos[1] - drag_start_pos[1]
                     dy == pos[2] - drag_start_pos[2]
                 IN  /\ images' = [images EXCEPT ![sel] = move(images[sel], dx, dy)]
                     /\ drag_start_pos' = pos
                     /\ has_drawn' = TRUE
                     /\ Called("mouseMoveEvent", [pos |-> pos, branch |-> "move"], None)
                     /\ UNCHANGED <<selected_image, mode, dragging_image,
                                    resizing_image, drawing, leftDown>>
            ELSE IF resizing_image /\ selected_image # NoImage /\ drag_start_pos # NoPos
            THEN LET dx == pos[1] - drag_start_pos[1]
                     dy == pos[2] - drag_start_pos[2]
                     new_width == images[sel].width + dx
                     new_height == images[sel].height + dy
                 IN  /\ images' = [images EXCEPT
                            ![sel] = resize(images[sel], new_width, new_height)]
                     /\ drag_start_pos' = pos
                     /\ has_drawn' = TRUE
                     /\ Called("mouseMoveEvent",
                               [pos |-> pos, branch |-> "resize",
                                new_width |-> new_width, new_height |-> new_height],
                               None)
                     /\ UNCHANGED <<selected_image, mode, dragging_image,
                                    resizing_image, drawing, leftDown>>
            ELSE IF drawing /\ leftDown
            THEN /\ has_drawn' = TRUE
                 /\ Called("mouseMoveEvent", [pos |-> pos, branch |-> "draw"], None)
                 /\ UNCHANGED <<images, selected_image, mode, dragging_image,
                                resizing_image, drag_start_pos, drawing, leftDown>>
            ELSE /\ Called("mouseMoveEvent", [pos |-> pos, branch |-> "none"], None)
                 /\ UNCHANGED canvasVars

\* DrawingCanvas.mouseReleaseEvent
mouseReleaseEvent ==
    \E button \in Buttons :
        /\ button = "left" => leftDown
        /\ Called("mouseReleaseEvent", [button |-> button], None)
        /\ IF button = "left"
           THEN /\ drawing' = FALSE
                /\ dragging_image' = FALSE
                /\ resizing_image' = FALSE
                /\ drag_start_pos' = NoPos
                /\ leftDown' = FALSE
                /\ UNCHANGED <<images, selected_image, mode, has_drawn>>
           ELSE UNCHANGED canvasVars

\* the guard of the layer operations and of delete_selected_image:
\* self.selected_image and self.selected_image in self.images
selected_in_list == selected_image # NoImage /\ selected_image \in Ids(images)

\* the image record the selection refers to
selected_obj == images[index(images, selected_image)]

\* DrawingCanvas.delete_selected_image
delete_selected_image ==
    IF selected_in_list
    THEN /\ images' = remove(images, selected_image)
         /\ selected_image' = NoImage
         /\ Called("delete_selected_image", selected_image, "True")
         /\ UNCHANGED <<mode, dragging_image, resizing_image, drag_start_pos,
                        drawing, has_drawn, leftDown>>
    ELSE /\ Called("delete_selected_image", selected_image, "False")
         /\ UNCHANGED canvasVars

\* bring_to_front inserting at the start of the list
to_front_inserts_first(imgs, id) == <<imgs[index(imgs, id)]>> \o remove(imgs, id)

\* bring_to_front: remove the selected image and append it
to_front(imgs, id) == Append(remove(imgs, id), imgs[index(imgs, id)])

\* send_to_back: remove the selected image and insert it at 0
to_back(imgs, id) == <<imgs[index(imgs, id)]>> \o remove(imgs, id)

\* bring_forward swapping with the top image instead of the next one
forward_to_top(imgs, id) ==
    LET i == index(imgs, id)
    IN  IF i < Len(imgs) THEN swap(imgs, i, Len(imgs)) ELSE imgs

\* bring_forward: swap with the next image unless already at the top
forward(imgs, id) ==
    LET i == index(imgs, id)
    IN  IF i < Len(imgs) THEN swap(imgs, i, i + 1) ELSE imgs

\* send_backward: swap with the previous image unless already at the bottom
backward(imgs, id) ==
    LET i == index(imgs, id)
    IN  IF i > 1 THEN swap(imgs, i, i - 1) ELSE imgs

\* what a layer operation leaves alone
LayerFrame == UNCHANGED <<selected_image, mode, dragging_image, resizing_image,
                          drag_start_pos, drawing, has_drawn, leftDown>>

\* DrawingCanvas.bring_to_front
bring_to_front ==
    IF selected_in_list
    THEN /\ images' = to_front(images, selected_image)
         /\ Called("bring_to_front", selected_image, "True")
         /\ LayerFrame
    ELSE /\ Called("bring_to_front", selected_image, "False")
         /\ UNCHANGED canvasVars

\* DrawingCanvas.send_to_back
send_to_back ==
    IF selected_in_list
    THEN /\ images' = to_back(images, selected_image)
         /\ Called("send_to_back", selected_image, "True")
         /\ LayerFrame
    ELSE /\ Called("send_to_back", selected_image, "False")
         /\ UNCHANGED canvasVars

\* DrawingCanvas.bring_forward
bring_forward ==
    IF selected_in_list /\ index(images, selected_image) < Len(images)
    THEN /\ images' = forward(images, selected_image)
         /\ Called("bring_forward", selected_image, "True")
         /\ LayerFrame
    ELSE /\ Called("bring_forward", selected_image, "False")
         /\ UNCHANGED canvasVars

\* DrawingCanvas.send_backward
send_backward ==
    IF selected_in_list /\ index(images, selected_image) > 1
    THEN /\ images' = backward(images, selected_image)
         /\ Called("send_backward", selected_image, "True")
         /\ LayerFrame
    ELSE /\ Called("send_backward", selected_image, "False")
         /\ UNCHANGED canvasVars

\* DrawingCanvas.set_mode
set_mode ==
    \E m \in {"draw", "select"} :
        /\ mode' = m
        /\ Called("set_mode", m, None)
        /\ IF m = "draw"
           THEN /\ images' = deselect_all(images)
                /\ selected_image' = NoImage
           ELSE UNCHANGED <<images, selected_image>>
        /\ UNCHANGED <<dragging_image, resizing_image, drag_start_pos, drawing,
                       has_drawn, leftDown>>

\* DrawingCanvas.clear_canvas
clear_canvas ==
    /\ images' = <<>>
    /\ selected_image' = NoImage
    /\ has_drawn' = FALSE
    /\ Called("clear_canvas", None, None)
    /\ UNCHANGED <<mode, dragging_image, resizing_image, drag_start_pos, drawing,
                   leftDown>>

-----------------------------------------------------------------------------
(* The editor's text                                                        *)

LowerLetters == {"a", "b"}
UpperLetters == {"A", "B"}

\* [a-zA-Z]
IsLetter(c) == c \in LowerLetters \cup UpperLetters

\* \w: letters, digits and the underscore
IsWordChar(c) == IsLetter(c) \/ c \in {"1", "_"}

\* str.lower, character by character
lower_char(c) == CASE c = "A" -> "a" [] c = "B" -> "b" [] OTHER -> c

lower(w) == [i \in 1..Len(w) |-> lower_char(w[i])]

\* ord
ord(c) == CASE c = " " -> 32 [] c = "1" -> 49 [] c = "A" -> 65 [] c = "B" -> 66
            [] c = "_" -> 95 [] c = "a" -> 97 [] c = "b" -> 98

\* hash(text): a hash of the characters; hash("") is 0.  The values of the
\* model's texts are distinct and far below 2^63, so no wrap-around occurs.
RECURSIVE hash(_)
hash(t) ==
    IF t = <<>> THEN 0
    ELSE hash(SubSeq(t, 1, Len(t) - 1)) * 131 + ord(t[Len(t)])

\* str(n) for n >= 0: the decimal digits
RECURSIVE str(_)
str(n) == IF n < 10 THEN <<n>> ELSE Append(str(n \div 10), n % 10)

\* re.compile(r"\b[a-zA-Z]+\b").finditer(text): the matches as
\* <<start, end>>, the runs of letters with a word boundary on both sides
matches(t) ==
    {m \in (0..Len(t)) \X (0..Len(t)) :
        /\ m[1] < m[2]
        /\ \A i \in (m[1] + 1)..m[2] : IsLetter(t[i])
        /\ m[1] = 0 \/ ~IsWordChar(t[m[1]])
        /\ m[2] = Len(t) \/ ~IsWordChar(t[m[2] + 1])}

\* m.group()
group(t, m) == SubSeq(t, m[1] + 1, m[2])

\* SpellCheckWorker.run: the keys of word_map
word_map_keys(t, ign) == {lower(group(t, m)) : m \in matches(t)} \ ign

\* spell.unknown(words)
unknown(words, dict) == {w \in words : w \notin dict}

\* SpellCheckWorker.run: misspelled
misspelled(t, ign, dict) == unknown(word_map_keys(t, ign), dict)

\* the matches of a set as (start, end, original), in the order of the text
RECURSIVE in_text_order(_, _)
in_text_order(t, ms) ==
    IF ms = {} THEN <<>>
    ELSE LET m == CHOOSE x \in ms : \A y \in ms : x[1] <= y[1]
         IN  <<[start |-> m[1], end |-> m[2], original |-> group(t, m)]>>
             \o in_text_order(t, ms \ {m})

\* word_map[lower_word] holding the first match of the word only
word_map_first(t, w) ==
    SubSeq(in_text_order(t, {m \in matches(t) : lower(group(t, m)) = w}), 1, 1)

\* word_map[lower_word]: the matches of one word, in the order of the text
word_map(t, w) == in_text_order(t, {m \in matches(t) : lower(group(t, m)) = w})

\* SpellCheckWorker.run: errors, for one iteration order of the set misspelled
RECURSIVE errors_of(_, _)
errors_of(t, order) ==
    IF order = <<>> THEN <<>>
    ELSE word_map(t, Head(order)) \o errors_of(t, Tail(order))

\* the orders a set can be iterated in
Orderings(S) ==
    {f \in [1..Cardinality(S) -> S] : \A i, j \in 1..Cardinality(S) : f[i] = f[j] => i = j}

\* the text with positions s..e-1 replaced by new
splice(t, s, e, new) == SubSeq(t, 1, s) \o new \o SubSeq(t, e + 1, Len(t))

\* where Qt leaves a cursor position after that replacement
shift_pos(p, s, e, n) ==
    IF p < s THEN p ELSE IF p <= e THEN s + n ELSE p + n - (e - s)

\* the error-formatted positions after that replacement; inserted text takes
\* the format of the character before it
shift_formats(u, s, e, n) ==
    {p \in u : p < s} \cup {p + n - (e - s) : p \in {q \in u : q >= e}}
    \cup (IF s > 0 /\ (s - 1) \in u THEN s..(s + n - 1) ELSE {})

-----------------------------------------------------------------------------
(* The spellcheck pipeline                                                  *)

\* timer.setInterval(700)
DebounceInterval == 700
\* QTimer.singleShot(500, ...) of enable_spellcheck
StartupDelay == 500
\* QTimer.singleShot(100, ...) of replace_word
ReplaceDelay == 100

\* the characters a user types into the editor while checks come and go
EditChars == {"b"}

\* the characters of the texts apply_highlights is tried on
ApplyChars == {"b", " "}

\* _worker_ref = None, _last_text_hash = None, an inactive timer
NoWorker == <<>>
NoHash == <<>>
Inactive == <<>>

SpellInit ==
    /\ text = <<>>
    /\ cursor = [position |-> 0, anchor |-> 0]
    /\ underlined = {}
    /\ ignored_words = {}
    /\ dictionary = {}
    /\ worker_ref = NoWorker
    /\ orphans = <<>>
    /\ last_text_hash = NoHash
    /\ results = <<>>
    /\ debounce = Inactive
    /\ startup = <<StartupDelay>>
    /\ replace_timers = <<>>
    /\ sinceChange = 0
    /\ burst = 0
    /\ modified = FALSE

\* a handler of the editor or of the pipeline ran
SpellCalled(name, arg, ret) ==
    /\ call' = [name |-> name, arg |-> arg, ret |-> ret]
    /\ UNCHANGED <<canvasVars, voiceVars, fileVars, restVars>>

\* a timer that is started only when it is not already running
timer_start_if_inactive(t) == IF t = Inactive THEN <<DebounceInterval>> ELSE t

\* QTimer.start() on the single-shot debounce timer: (re)start at the interval
timer_start(t) == <<DebounceInterval>>

\* editor.textChanged.connect(timer.start)
textChanged ==
    /\ debounce' = timer_start(debounce)
    /\ sinceChange' = 0
    /\ burst' = IF burst = 0 THEN 1 ELSE 2

\* the step of the clock, in ms: half the debounce interval
TickMs == DebounceInterval \div 2

\* the clock advances by TickMs
remaining(t) == IF t = Inactive THEN Inactive ELSE <<Max(0, t[1] - TickMs)>>

Tick ==
    /\ debounce' = remaining(debounce)
    /\ startup' = remaining(startup)
    /\ replace_timers' = [i \in 1..Len(replace_timers) |-> Max(0, replace_timers[i] - TickMs)]
    /\ sinceChange' = Min(sinceChange + TickMs, DebounceInterval)
    /\ UNCHANGED <<text, modified, cursor, underlined, ignored_words, dictionary, worker_ref,
                   orphans, last_text_hash, results, burst>>
    /\ SpellCalled("Tick", None, None)

\* the document is edited: positions s..e-1 are replaced by new
edit(s, e, new) ==
    /\ text' = splice(text, s, e, new)
    /\ cursor' = [position |-> shift_pos(cursor.position, s, e, Len(new)),
                  anchor |-> shift_pos(cursor.anchor, s, e, Len(new))]
    /\ underlined' = shift_formats(underlined, s, e, Len(new))
    /\ modified' = TRUE
    /\ textChanged

sel_start == Min(cursor.position, cursor.anchor)
sel_end == Max(cursor.position, cursor.anchor)

\* the user types a character (it replaces the selection)
keyPress ==
    \E c \in EditChars :
        /\ Len(text) - (sel_end - sel_start) + 1 <= MaxLen
        /\ edit(sel_start, sel_end, <<c>>)
        /\ UNCHANGED <<ignored_words, dictionary, worker_ref, orphans,
                       last_text_hash, results, startup, replace_timers>>
        /\ SpellCalled("keyPress", c, None)

\* the user deletes the selection, or the character before the cursor
backspace ==
    /\ sel_end > 0
    /\ IF sel_start < sel_end THEN edit(sel_start, sel_end, <<>>)
       ELSE edit(sel_start - 1, sel_end, <<>>)
    /\ UNCHANGED <<ignored_words, dictionary, worker_ref, orphans,
                   last_text_hash, results, startup, replace_timers>>
    /\ SpellCalled("backspace", None, None)

\* the user moves the cursor or selects text
moveCursor ==
    \E p \in 0..Len(text), a \in 0..Len(text) :
        /\ cursor' = [position |-> p, anchor |-> a]
        /\ cursor' # cursor
        /\ UNCHANGED <<text, modified, underlined, ignored_words, dictionary, worker_ref,
                       orphans, last_text_hash, results, debounce, startup,
                       replace_timers, sinceChange, burst>>
        /\ SpellCalled("moveCursor", None, None)

\* QThread.isRunning() of _worker_ref
isRunning(w) == w # NoWorker /\ w[1].running

\* the running worker left alone
terminate_skipped(w) == w

\* _worker_ref.terminate(); _worker_ref.wait()
terminate_wait(w) == <<[w[1] EXCEPT !.running = FALSE]>>

\* highlight_misspelled_words(editor)
highlight_misspelled_words ==
    LET current_text == text
        current_hash == str(hash(current_text))
        old == IF isRunning(worker_ref) THEN terminate_wait(worker_ref) ELSE worker_ref
    IN  /\ orphans' = IF isRunning(old) THEN Append(orphans, old[1]) ELSE orphans
        /\ last_text_hash' = current_hash
        /\ worker_ref' = <<[text |-> current_text, running |-> TRUE]>>

\* timer.timeout of the debounce timer
debounce_timeout ==
    /\ debounce = <<0>>
    /\ debounce' = Inactive
    /\ burst' = 0
    /\ highlight_misspelled_words
    /\ UNCHANGED <<text, modified, cursor, underlined, ignored_words, dictionary, results,
                   startup, replace_timers, sinceChange>>
    /\ SpellCalled("debounce_timeout",
                   [stopped |-> isRunning(worker_ref), burst |-> burst], None)

\* QTimer.singleShot(500, ...) of enable_spellcheck fires
startup_timeout ==
    /\ startup = <<0>>
    /\ startup' = Inactive
    /\ highlight_misspelled_words
    /\ UNCHANGED <<text, modified, cursor, underlined, ignored_words, dictionary, results,
                   debounce, replace_timers, sinceChange, burst>>
    /\ SpellCalled("startup_timeout", [stopped |-> isRunning(worker_ref)], None)

\* the words show_spellcheck_menu offers its actions for: alphabetic, not
\* ignored and unknown
menu_matches ==
    {m \in matches(text) : lower(group(text, m)) \in misspelled(text, ignored_words, dictionary)}

\* spell.candidates(lower_word): the known words within edit distance 2 (here:
\* every known word whose length differs by at most 2), or the word itself
candidates(w) ==
    LET near == {d \in dictionary : Len(d) - Len(w) \in -2..2}
    IN  IF near = {} THEN {w} ELSE near

\* replace_word(editor, new_word, pos)
replace_word ==
    \E m \in menu_matches :
      \E new_word \in candidates(lower(group(text, m))) :
        /\ Len(replace_timers) < MaxReplaceTimers
        /\ Len(text) - (m[2] - m[1]) + Len(new_word) <= MaxLen
        /\ edit(m[1], m[2], new_word)
        /\ replace_timers' = Append(replace_timers, ReplaceDelay)
        /\ UNCHANGED <<ignored_words, dictionary, worker_ref, orphans,
                       last_text_hash, results, startup>>
        /\ SpellCalled("replace_word", new_word, None)

\* QTimer.singleShot(100, ...) of replace_word fires
replace_timeout ==
    \E i \in 1..Len(replace_timers) :
        /\ replace_timers[i] = 0
        /\ replace_timers' = SubSeq(replace_timers, 1, i - 1)
                             \o SubSeq(replace_timers, i + 1, Len(replace_timers))
        /\ highlight_misspelled_words
        /\ UNCHANGED <<text, modified, cursor, underlined, ignored_words, dictionary, results,
                       debounce, startup, sinceChange, burst>>
        /\ SpellCalled("replace_timeout", [stopped |-> isRunning(worker_ref)], None)

\* ignore_word(editor, word)
ignore_word ==
    \E m \in menu_matches :
        /\ ignored_words' = ignored_words \cup {lower(group(text, m))}
        /\ highlight_misspelled_words
        /\ UNCHANGED <<text, modified, cursor, underlined, dictionary, results, debounce,
                       startup, replace_timers, sinceChange, burst>>
        /\ SpellCalled("ignore_word", [stopped |-> isRunning(worker_ref)], None)

\* add_to_dictionary(editor, word)
add_to_dictionary ==
    \E m \in menu_matches :
        /\ dictionary' = dictionary \cup {lower(group(text, m))}
        /\ highlight_misspelled_words
        /\ UNCHANGED <<text, modified, cursor, underlined, ignored_words, results, debounce,
                       startup, replace_timers, sinceChange, burst>>
        /\ SpellCalled("add_to_dictionary", [stopped |-> isRunning(worker_ref)], None)

\* SpellCheckWorker.run, on its own thread: k = 0 is the worker _worker_ref
\* refers to, k > 0 a running worker nothing refers to
SpellCheckWorker_run ==
    \E k \in 0..Len(orphans) :
        /\ k = 0 => isRunning(worker_ref)
        /\ Len(results) < MaxResults
        /\ LET self == IF k = 0 THEN worker_ref[1] ELSE orphans[k]
           IN  \E order \in Orderings(misspelled(self.text, ignored_words, dictionary)) :
                 results' = Append(results,
                     [errors |-> errors_of(self.text, order),
                      hash |-> str(hash(self.text)),
                      text |-> self.text])
        /\ IF k = 0
           THEN /\ worker_ref' = <<[worker_ref[1] EXCEPT !.running = FALSE]>>
                /\ UNCHANGED orphans
           ELSE /\ orphans' = SubSeq(orphans, 1, k - 1) \o SubSeq(orphans, k + 1, Len(orphans))
                /\ UNCHANGED worker_ref
        /\ UNCHANGED <<text, modified, cursor, underlined, ignored_words, dictionary,
                       last_text_hash, debounce, startup, replace_timers,
                       sinceChange, burst>>
        /\ SpellCalled("SpellCheckWorker.run", None, None)

\* QTextCursor.setPosition: a position outside the document is refused
valid_pos(p) == 0 <= p /\ p <= Len(text)

\* apply_highlights, step 3: the error format on every range of errors, with
\* the format cursor fc; u is the set of error-formatted positions
RECURSIVE apply_errors(_, _, _)
apply_errors(errs, fc, u) ==
    IF errs = <<>> THEN u
    ELSE LET e == Head(errs)
             fc1 == IF valid_pos(e.start)
                    THEN [position |-> e.start, anchor |-> e.start] ELSE fc
             fc2 == IF valid_pos(e.end) THEN [fc1 EXCEPT !.position = e.end] ELSE fc1
             lo == Min(fc2.position, fc2.anchor)
             hi == Max(fc2.position, fc2.anchor)
         IN  apply_errors(Tail(errs), fc2, u \cup (lo..(hi - 1)))

\* the cursor put back without its selection
restore_cursor_collapsed(old_pos, old_anchor, has_selection) ==
    [position |-> old_pos, anchor |-> old_pos]

\* apply_highlights, step 4: the editor's cursor put back
restore_cursor(old_pos, old_anchor, has_selection) ==
    IF has_selection
    THEN [position |-> old_pos, anchor |-> old_anchor]
    ELSE [position |-> old_pos, anchor |-> old_pos]

\* the main thread delivers a queued results_ready to
\* apply_highlights(editor, errors, text_hash)
apply_highlights ==
    /\ results # <<>>
    /\ results' = Tail(results)
    /\ LET errors == Head(results).errors
           text_hash == Head(results).hash
           note == [checked |-> Head(results).text, text_hash |-> text_hash]
       IN  IF text_hash # last_text_hash
           THEN /\ SpellCalled("apply_highlights", note, "returned")
                /\ UNCHANGED <<text, modified, cursor, underlined, debounce, sinceChange, burst>>
           ELSE LET old_pos == cursor.position
                    old_anchor == cursor.anchor
                    has_selection == cursor.position # cursor.anchor
                    format_cursor == [position |-> Len(text), anchor |-> 0]
                IN  /\ underlined' = apply_errors(errors, format_cursor, {})
                    /\ cursor' = restore_cursor(old_pos, old_anchor, has_selection)
                    /\ UNCHANGED text
                    \* setCharFormat on a non-empty document: Qt documents textChanged
                    \* as emitted when formatting is applied
                    /\ \/ textChanged /\ Len(text) > 0 /\ modified' = TRUE
                       \/ UNCHANGED <<debounce, sinceChange, burst, modified>>
                    /\ SpellCalled("apply_highlights", note, "formatted")
    /\ UNCHANGED <<ignored_words, dictionary, worker_ref, orphans, last_text_hash,
                   startup, replace_timers>>

-----------------------------------------------------------------------------
(* Voice dictation                                                          *)

MaxVoiceSignals == 2
\* the longest text dictation may leave in the editor
MaxDictatedLen == 2

\* VoiceWorker.__init__: self.energy_threshold = 600
default_energy_threshold == 600

\* the thresholds toggle_voice and set_sensitivity are called with
Sensitivities == {100, 600}
\* the RMS of the audio the microphone delivers
RmsValues == {0, 300}
\* what the transcription of a phrase returns: nothing, or words
Phrases == {<<>>, <<"b">>}

NoVoiceWorker == <<>>
Idle == [pc |-> "idle", fn |-> None]

VoiceInit(libs) ==
    /\ voice_worker_ref = NoVoiceWorker
    /\ voice_orphans = <<>>
    /\ voice_main = Idle
    /\ voice_signals = <<>>
    /\ level = 0
    /\ libs_available \in libs

\* a call without arguments
NoArgs == [args |-> None]

\* a function of voice_operations.py ran, or a step of a worker's run()
VoiceCalled(name, arg, ret) ==
    /\ call' = [name |-> name, arg |-> arg, ret |-> ret]
    /\ UNCHANGED <<canvasVars, fileVars, restVars, libs_available>>

\* VoiceWorker(): a thread that has not started
VoiceWorker == [phase |-> "new", running |-> TRUE,
                energy_threshold |-> default_energy_threshold]

\* QThread.isRunning(): from start() until run() has returned
voice_isRunning(w) == w.phase \in {"started", "loop", "iteration"}

\* a test that takes every worker for stopped
worker_is_running_never(ref) == FALSE

\* _voice_worker_ref and _voice_worker_ref.isRunning()
worker_is_running(ref) == ref # NoVoiceWorker /\ voice_isRunning(ref[1])

\* QThread.terminate() followed by wait(1000)
voice_terminate(w) == [w EXCEPT !.phase = "finished"]

\* the threads: 0 is the worker _voice_worker_ref refers to
ThreadIds ==
    (IF voice_worker_ref = NoVoiceWorker THEN {} ELSE {0}) \cup (1..Len(voice_orphans))

thread(k) == IF k = 0 THEN voice_worker_ref[1] ELSE voice_orphans[k]

\* the thread k goes on as w; a finished thread nothing refers to is gone
set_thread(k, w) ==
    IF k = 0
    THEN /\ voice_worker_ref' = <<w>>
         /\ UNCHANGED voice_orphans
    ELSE /\ voice_orphans' =
               IF voice_isRunning(w)
               THEN [voice_orphans EXCEPT ![k] = w]
               ELSE SubSeq(voice_orphans, 1, k - 1)
                        \o SubSeq(voice_orphans, k + 1, Len(voice_orphans))
         /\ UNCHANGED voice_worker_ref

\* Signal.emit from a worker thread: queued for the main thread
emit(sigs) == voice_signals' = voice_signals \o sigs

\* level = min(100, max(0, int((rms / max(50, self.energy_threshold)) * 100)))
audio_level(rms, energy_threshold) ==
    Min(100, Max(0, (rms * 100) \div Max(50, energy_threshold)))

\* VoiceWorker.run up to the loop: the libraries, the model, the microphone
VoiceWorker_run ==
    \E k \in ThreadIds, loaded \in BOOLEAN :
        /\ thread(k).phase = "started"
        /\ IF libs_available /\ loaded
           THEN /\ set_thread(k, [thread(k) EXCEPT !.phase = "loop"])
                /\ UNCHANGED voice_signals
                /\ VoiceCalled("VoiceWorker.run", NoArgs, "ready")
           ELSE /\ set_thread(k, [thread(k) EXCEPT !.phase = "finished"])
                /\ emit(<<[signal |-> "error_occurred", value |-> None]>>)
                /\ VoiceCalled("VoiceWorker.run", NoArgs, "error")
        /\ UNCHANGED <<voice_main, level, spellVars>>

\* while self.running:
VoiceWorker_loop ==
    \E k \in ThreadIds :
        /\ thread(k).phase = "loop"
        /\ set_thread(k, [thread(k) EXCEPT
               !.phase = IF thread(k).running THEN "iteration" ELSE "finished"])
        /\ VoiceCalled("VoiceWorker.loop", NoArgs,
                       IF thread(k).running THEN "iteration" ELSE "finished")
        /\ UNCHANGED <<voice_main, voice_signals, level, spellVars>>

\* except sr.WaitTimeoutError: continue / except Exception: print(...)
logged(outcome) == outcome \in {"read_error", "error"}

\* a loop body whose exceptions end run()
after_iteration_raises(outcome) ==
    IF outcome \in {"read_error", "error"} THEN "finished" ELSE "loop"

\* where run() is after a pass of the loop body: both except clauses are
\* inside the while, so every outcome leads back to its head
after_iteration(outcome) == "loop"

\* one pass of the loop body: the level meter, listen, transcribe, emit
VoiceWorker_iteration ==
    \E k \in ThreadIds,
       outcome \in {"read_error", "timeout", "error", "transcribed"},
       rms \in RmsValues, phrase \in Phrases :
        /\ thread(k).phase = "iteration"
        /\ outcome # "transcribed" => phrase = <<>>
        /\ outcome = "read_error" => rms = 0
        /\ LET lvl == [signal |-> "audio_level",
                       value |-> audio_level(rms, thread(k).energy_threshold)]
               txt == [signal |-> "text_received", value |-> phrase]
               sigs == (IF outcome = "read_error" THEN <<>> ELSE <<lvl>>)
                       \o (IF phrase # <<>> THEN <<txt>> ELSE <<>>)
           IN  /\ Len(voice_signals) + Len(sigs) <= MaxVoiceSignals
               /\ emit(sigs)
               /\ VoiceCalled("VoiceWorker.iteration",
                              [outcome |-> outcome, emitted |-> Len(sigs),
                               logged |-> logged(outcome)], None)
        /\ set_thread(k, [thread(k) EXCEPT !.phase = after_iteration(outcome)])
        /\ UNCHANGED <<voice_main, level, spellVars>>

\* VoiceWorker.stop up to its wait(): self.running = False; self.quit()
stop(w) == [w EXCEPT !.running = FALSE]

\* toggle_voice / stop_voice with a running worker: the main thread is in
\* _voice_worker_ref.stop(), blocked in wait() until run() has returned
stop_and_wait(fn) ==
    /\ voice_worker_ref' = <<stop(voice_worker_ref[1])>>
    /\ voice_main' = [pc |-> "stop.wait", fn |-> fn]
    /\ UNCHANGED <<voice_orphans, voice_signals, level, spellVars>>

\* toggle_voice(editor, level_callback, sensitivity), called by caller
toggle_voice_with(caller, sensitivity) ==
    /\ voice_main = Idle
    /\ IF worker_is_running(voice_worker_ref)
       THEN /\ stop_and_wait("toggle_voice")
            /\ VoiceCalled(caller, [sensitivity |-> sensitivity], "stop.wait")
       ELSE \* the bound: a worker starts with room for its error_occurred
            /\ Len(voice_signals) < MaxVoiceSignals
            /\ voice_worker_ref' =
                  <<[VoiceWorker EXCEPT !.energy_threshold = sensitivity,
                                        !.phase = "started"]>>
            /\ voice_orphans' =
                  IF voice_worker_ref # NoVoiceWorker
                     /\ voice_isRunning(voice_worker_ref[1])
                  THEN Append(voice_orphans, voice_worker_ref[1])
                  ELSE voice_orphans
            /\ UNCHANGED <<voice_main, voice_signals, level, spellVars>>
            /\ VoiceCalled(caller, [sensitivity |-> sensitivity], "True")

toggle_voice ==
    \E sensitivity \in Sensitivities :
        toggle_voice_with("toggle_voice", sensitivity)

\* the threshold of a slider value, not inverted
actual_sensitivity_direct(value) == 100 + (value * 3900) \div 100

\* int(4000 - (value / 100) * 3900).  Python computes it in floating point;
\* for every integer value of 0..100 the result is the integer part of the
\* exact quotient.
actual_sensitivity(value) == (4000 * 100 - value * 3900) \div 100

\* toggle_voice_ui in main.py: the menu action "Start Voice Dictation"
toggle_voice_ui ==
    toggle_voice_with("toggle_voice_ui", actual_sensitivity(current_sensitivity))

stop_voice ==
    /\ voice_main = Idle
    /\ IF worker_is_running(voice_worker_ref)
       THEN /\ stop_and_wait("stop_voice")
            /\ VoiceCalled("stop_voice", NoArgs, "stop.wait")
       ELSE /\ UNCHANGED <<voice_worker_ref, voice_orphans, voice_main,
                           voice_signals, level, spellVars>>
            /\ VoiceCalled("stop_voice", NoArgs, None)

\* the reference kept after the worker has been stopped
ref_kept(ref) == ref

\* _voice_worker_ref.deleteLater(); _voice_worker_ref = None
ref_cleared(ref) == NoVoiceWorker

\* the rest of the stop branch, once stop() has returned: wait(3000), the
\* forced terminate() of a worker that still runs, deleteLater(), None
stop_return ==
    /\ voice_main.pc = "stop.wait"
    /\ ~voice_isRunning(voice_worker_ref[1])
    /\ LET still == IF voice_isRunning(voice_worker_ref[1])
                    THEN voice_terminate(voice_worker_ref[1])
                    ELSE voice_worker_ref[1]
       IN  /\ voice_worker_ref' = ref_cleared(voice_worker_ref)
           /\ VoiceCalled(voice_main.fn, [terminated |-> still # voice_worker_ref[1]],
                          IF voice_main.fn = "toggle_voice" THEN "False" ELSE None)
    /\ voice_main' = Idle
    /\ UNCHANGED <<voice_orphans, voice_signals, level, spellVars>>

\* set_sensitivity(value) of voice_operations.py
set_sensitivity_to(value) ==
    /\ voice_main = Idle
    /\ voice_worker_ref' =
          IF worker_is_running(voice_worker_ref)
          THEN <<[voice_worker_ref[1] EXCEPT !.energy_threshold = value]>>
          ELSE voice_worker_ref
    /\ UNCHANGED <<voice_orphans, voice_main, voice_signals, level, spellVars>>

set_sensitivity ==
    \E value \in Sensitivities :
        /\ set_sensitivity_to(value)
        /\ VoiceCalled("set_sensitivity", [value |-> value], None)

\* the positions the slider of the dialog is moved to, of 0..100
SliderValues == {0, 50, 100}

\* MicSensitivityDialog's update(value), connected to slider.valueChanged
MicSensitivityDialog_update ==
    \E value \in SliderValues :
        LET actual_value == actual_sensitivity(value)
        IN  /\ set_sensitivity_to(actual_value)
            /\ VoiceCalled("MicSensitivityDialog.update",
                           [value |-> value, actual_value |-> actual_value], None)

\* _voice_worker_ref is not None and _voice_worker_ref.isRunning()
voice_active == voice_worker_ref # NoVoiceWorker /\ voice_isRunning(voice_worker_ref[1])

is_voice_active ==
    /\ voice_main = Idle
    /\ UNCHANGED <<voice_worker_ref, voice_orphans, voice_main, voice_signals,
                   level, spellVars>>
    /\ VoiceCalled("is_voice_active", NoArgs, IF voice_active THEN "True" ELSE "False")

\* the main thread runs the slot of the oldest queued signal:
\* text_received: editor.insertPlainText(t + " "); error_occurred: print;
\* audio_level: level_callback
deliver ==
    /\ voice_main = Idle
    /\ voice_signals # <<>>
    /\ voice_signals' = Tail(voice_signals)
    /\ LET sig == Head(voice_signals)
       IN  /\ CASE sig.signal = "text_received" ->
                     /\ Len(text) - (sel_end - sel_start) + Len(sig.value) + 1
                            <= MaxDictatedLen
                     /\ edit(sel_start, sel_end, sig.value \o <<" ">>)
                     /\ UNCHANGED <<ignored_words, dictionary, worker_ref, orphans,
                                    last_text_hash, results, startup,
                                    replace_timers, level>>
                [] sig.signal = "audio_level" ->
                     /\ level' = sig.value
                     /\ UNCHANGED spellVars
                [] OTHER -> UNCHANGED <<level, spellVars>>
           /\ VoiceCalled(sig.signal, sig, None)
    /\ UNCHANGED <<voice_worker_ref, voice_orphans, voice_main>>

-----------------------------------------------------------------------------
(* Saving (src/file_operations.py); paths are sequences of characters       *)

NoPath == <<>>

\* the paths save_file is handed as current_file
CurrentFiles ==
    { <<"/", "d", "/", "n", ".", "t", "x", "t">>,
      <<"n", ".", "b">>,
      <<"/", "d", ".", "x", "/", "n">> }

\* QFileDialog.getExistingDirectory: the folder picked, or "" on cancel
FolderAnswers == { NoPath, <<"/", "d">> }

\* QFileDialog.getSaveFileName: the name picked, or "" on cancel
NameAnswers == { NoPath, <<"/", "d", "/", "n">>, <<"/", "d", "/", "n", ".", "t", "x", "t">> }

FileInit == files = [p \in {} |-> None]

\* str.rfind(c) + 1: the last place of c in p, 0 when there is none
rfind(p, c) ==
    LET at == {i \in 1..Len(p) : p[i] = c}
    IN  IF at = {} THEN 0 ELSE CHOOSE i \in at : \A j \in at : j <= i

endswith(p, suffix) ==
    /\ Len(p) >= Len(suffix)
    /\ SubSeq(p, Len(p) - Len(suffix) + 1, Len(p)) = suffix

\* str.rstrip("/")
RECURSIVE rstrip(_)
rstrip(p) == IF p # <<>> /\ p[Len(p)] = "/" THEN rstrip(SubSeq(p, 1, Len(p) - 1)) ELSE p

\* os.path.basename
basename(p) == SubSeq(p, rfind(p, "/") + 1, Len(p))

\* os.path.dirname
dirname(p) ==
    LET head == SubSeq(p, 1, rfind(p, "/"))
    IN  IF head # <<>> /\ \E i \in 1..Len(head) : head[i] # "/"
        THEN rstrip(head) ELSE head

\* os.path.splitext(p)[0]: the extension starts at the last dot of the last
\* component, unless only dots precede it there
splitext_root(p) ==
    LET sep == rfind(p, "/")
        dot == rfind(p, ".")
    IN  IF dot > sep /\ \E i \in (sep + 1)..(dot - 1) : p[i] # "."
        THEN SubSeq(p, 1, dot - 1) ELSE p

\* os.path.join(a, b)
join(a, b) ==
    IF b # <<>> /\ b[1] = "/" THEN b
    ELSE IF a = <<>> \/ a[Len(a)] = "/" THEN a \o b
    ELSE a \o <<"/">> \o b

drawing_suffix == <<"_", "d", "r", "a", "w", "i", "n", "g", ".", "p", "n", "g">>
txt_suffix == <<".", "t", "x", "t">>

\* the drawing beside the text: a file named without the folder
drawing_path_no_folder(current_file) ==
    splitext_root(basename(current_file)) \o drawing_suffix

\* os.path.join(folder, f"{base_name}_drawing.png")
drawing_path(current_file) ==
    join(dirname(current_file), splitext_root(basename(current_file)) \o drawing_suffix)

\* open(path, "w").write(...) and QPixmap.save(path, "PNG")
write(fs, path, content) ==
    [q \in DOMAIN fs \cup {path} |-> IF q = path THEN content ELSE fs[q]]

\* DrawingCanvas.save_image: the layers and the drawing layer, as a PNG
save_image == [format |-> "PNG", images |-> images, drawn |-> has_drawn]

save_file ==
    \E current_file \in CurrentFiles \cup {NoPath}, drawing_pad \in BOOLEAN,
       folder_path \in FolderAnswers, project_name \in NameAnswers :
        LET has_drawing == drawing_pad /\ has_drawn
            asked == current_file = NoPath
            dialogs == IF ~asked THEN 0 ELSE IF folder_path = NoPath THEN 1 ELSE 2
            canceled == asked /\ (folder_path = NoPath \/ project_name = NoPath)
            path == IF ~asked THEN current_file
                    ELSE IF endswith(project_name, txt_suffix) THEN project_name
                    ELSE project_name \o txt_suffix
            input == [current_file |-> current_file, drawing_pad |-> drawing_pad,
                      dialogs |-> dialogs]
        IN  /\ ~asked => folder_path = NoPath /\ project_name = NoPath
            /\ folder_path = NoPath => project_name = NoPath
            /\ IF canceled
               THEN /\ UNCHANGED <<files, modified>>
                    /\ call' = [name |-> "save_file", arg |-> input, ret |-> None]
               ELSE /\ files' =
                          IF has_drawing
                          THEN write(write(files, path, text), drawing_path(path), save_image)
                          ELSE write(files, path, text)
                    /\ modified' = FALSE
                    /\ call' = [name |-> "save_file", arg |-> input, ret |-> path]
            /\ UNCHANGED <<canvasVars, voiceVars, restVars, text, cursor, underlined,
                           ignored_words, dictionary, worker_ref, orphans,
                           last_text_hash, results, debounce, startup,
                           replace_timers, sinceChange, burst>>

-----------------------------------------------------------------------------
(* The summarizer, the recent colors and the microphone sensitivity         *)

NoClient == <<>>

\* current_sensitivity = [50]
initial_sensitivity == 50

\* DrawingPad.__init__, FreeTeacherSummarizer.__init__, no key saved, main
RestInit ==
    /\ recent_colors = <<>>
    /\ client = NoClient
    /\ api_key = <<>>
    /\ current_sensitivity = initial_sensitivity

\* the longest run of letters in a text handed to summarize
MaxTextLen == 11

\* len(text.strip()) < 10
min_text_len == 10

gsk_prefix == <<"g", "s", "k", "_">>

\* the keys typed into the settings dialog or handed to set_token
Tokens ==
    { <<>>,
      <<" ">>,
      <<"g", "s", "k">>,
      <<"g", "s", "k", "_">>,
      <<"g", "s", "k", "_", "a">>,
      <<" ", "g", "s", "k", "_", "b", " ">>,
      <<"a", "g", "s", "k", "_">>,
      <<"g", " ", "s", "k", "_">>,
      <<"G", "s", "k", "_", "a">> }

\* what the chat completion does: it answers with a content, answers without
\* one (content is None, so .strip() raises), or raises with a message
ApiOutcomes ==
    { [kind |-> "content", value |-> <<" ", "o", "k", " ">>],
      [kind |-> "content", value |-> <<>>],
      [kind |-> "no_content", value |-> <<"n", "o", "n", "e">>],
      [kind |-> "raise", value |-> <<"4", "0", "1">>],
      [kind |-> "raise", value |-> <<"A", "u", "t", "h", "e", "n", "t", "i", "c", "a", "t", "i", "o", "n">>],
      [kind |-> "raise", value |-> <<"I", "n", "v", "a", "l", "i", "d", " ", "A", "P", "I", " ", "K", "e", "y">>],
      [kind |-> "raise", value |-> <<"R", "a", "t", "e", " ", "L", "i", "m", "i", "t">>],
      [kind |-> "raise", value |-> <<"4", "2", "9">>],
      [kind |-> "raise", value |-> <<"4", "2", "9", " ", "4", "0", "1">>],
      [kind |-> "raise", value |-> <<"r", "a", "t", "e", "l", "i", "m", "i", "t">>],
      [kind |-> "raise", value |-> <<>>] }

Rep(c, n) == [i \in 1..n |-> c]

\* the texts handed to summarize: letters, blanks, letters between blanks
SummaryTexts ==
    {Rep("a", n) : n \in 0..MaxTextLen}
        \cup {Rep(" ", n) : n \in 1..MaxTextLen}
        \cup {<<" ">> \o Rep("a", n) \o <<" ", " ">> : n \in 1..MaxTextLen}

\* str.lower() of a message
msg_lower(m) ==
    [i \in 1..Len(m) |->
        CASE m[i] = "A" -> "a" [] m[i] = "I" -> "i" [] m[i] = "K" -> "k"
          [] m[i] = "L" -> "l" [] m[i] = "P" -> "p" [] m[i] = "R" -> "r"
          [] OTHER -> m[i]]

\* str.strip()
RECURSIVE strip_left(_)
strip_left(t) == IF t # <<>> /\ t[1] = " " THEN strip_left(Tail(t)) ELSE t

RECURSIVE strip_right(_)
strip_right(t) ==
    IF t # <<>> /\ t[Len(t)] = " " THEN strip_right(SubSeq(t, 1, Len(t) - 1)) ELSE t

strip(t) == strip_right(strip_left(t))

startswith(t, prefix) == Len(t) >= Len(prefix) /\ SubSeq(t, 1, Len(prefix)) = prefix

\* sub in m
contains(m, sub) ==
    \E i \in 0..(Len(m) - Len(sub)) : SubSeq(m, i + 1, i + Len(sub)) = sub

\* OpenAI(api_key=token, base_url="https://api.groq.com/openai/v1")
OpenAI(token) == [api_key |-> token, base_url |-> "https://api.groq.com/openai/v1"]

\* a function of the summarizer or of the settings dialog ran
SumCalled(name, arg, ret) ==
    /\ call' = [name |-> name, arg |-> arg, ret |-> ret]
    /\ UNCHANGED <<canvasVars, spellVars, voiceVars, fileVars, recent_colors,
                   current_sensitivity>>

\* a test of the key that accepts every token
accepts_any(token) == TRUE

\* token.startswith("gsk_")
accepts(token) == startswith(token, gsk_prefix)

\* FreeTeacherSummarizer.set_token
set_token_to(token) ==
    LET stripped == strip(token)
    IN  IF ~accepts(stripped) THEN client' = client ELSE client' = <<OpenAI(stripped)>>

set_token ==
    \E token \in Tokens :
        /\ set_token_to(token)
        /\ UNCHANGED api_key
        /\ SumCalled("set_token", [token |-> token],
                     IF accepts(strip(token)) THEN "True" ELSE "False")

\* OpenAISettingsDialog.save_token
save_token ==
    \E typed \in Tokens :
        LET token == strip(typed)
        IN  IF ~startswith(token, gsk_prefix)
            THEN /\ UNCHANGED <<client, api_key>>
                 /\ SumCalled("save_token", [token |-> typed], "Invalid Key")
            ELSE /\ api_key' = token
                 /\ set_token_to(token)
                 /\ SumCalled("save_token", [token |-> typed], "Saved")

\* the except clause of summarize: the message returned for str(e)
error_message(e) ==
    LET msg == msg_lower(e)
        authentication == <<"a", "u", "t", "h", "e", "n", "t", "i", "c", "a", "t", "i", "o", "n">>
        invalid_api_key == <<"i", "n", "v", "a", "l", "i", "d", " ", "a", "p", "i", " ", "k", "e", "y">>
        rate_limit == <<"r", "a", "t", "e", " ", "l", "i", "m", "i", "t">>
    IN  IF contains(msg, authentication) \/ contains(msg, invalid_api_key)
           \/ contains(msg, <<"4", "0", "1">>)
        THEN [message |-> "API Error: Invalid Groq Key. Make sure it starts with 'gsk_'.",
              detail |-> <<>>]
        ELSE IF contains(msg, rate_limit) \/ contains(msg, <<"4", "2", "9">>)
        THEN [message |-> "Free tier limit reached. Please wait a minute and try again.",
              detail |-> <<>>]
        ELSE [message |-> "API Error: ", detail |-> e]

\* a length test on the text as it is, blanks included
too_short_unstripped(t) == t = <<>> \/ Len(t) < min_text_len

\* not text or len(text.strip()) < 10
too_short(t) == t = <<>> \/ Len(strip(t)) < min_text_len

\* FreeTeacherSummarizer.summarize
summarize ==
    \E t \in SummaryTexts, outcome \in ApiOutcomes :
        LET guarded == client = NoClient \/ too_short(t)
            input == [text |-> t, api_called |-> ~guarded,
                      outcome |-> IF guarded THEN "none" ELSE outcome.kind,
                      value |-> IF guarded THEN <<>> ELSE outcome.value]
            result ==
                IF client = NoClient
                THEN [message |-> "Please enter your Groq API Key in Settings.",
                      detail |-> <<>>]
                ELSE IF too_short(t)
                THEN [message |-> "The text box is too short for me to explain!",
                      detail |-> <<>>]
                ELSE IF outcome.kind = "content"
                THEN [message |-> "content", detail |-> strip(outcome.value)]
                ELSE error_message(outcome.value)
        IN  \* the API is not called when a guard returns: no outcome to choose
            /\ guarded => outcome = [kind |-> "raise", value |-> <<>>]
            /\ UNCHANGED <<client, api_key>>
            /\ SumCalled("summarize", input, result)

\* self.max_recent_colors = 5
max_recent_colors == 5

\* what QColorDialog.getColor() returns when the dialog is cancelled
InvalidColor == [rgb |-> "", alpha |-> 0]

\* the colors the dialog can return: six opaque ones, and a translucent red
Colors ==
    [rgb : {"#000000", "#ff0000", "#00ff00", "#0000ff", "#ffff00", "#ffffff"},
     alpha : {255}]
    \cup {[rgb |-> "#ff0000", alpha |-> 128]}

\* QColor.name(): "#rrggbb", the alpha channel is not part of the name
color_name(color) == color.rgb

\* QColor.isValid()
isValid(color) == color # InvalidColor

\* a function of the drawing pad's color bar ran
ColorCalled(fn, arg, ret) ==
    /\ call' = [name |-> fn, arg |-> arg, ret |-> ret]
    /\ UNCHANGED <<canvasVars, spellVars, voiceVars, fileVars, client, api_key,
                   current_sensitivity>>

\* the list kept whole: the color's earlier entry stays in it
without_none(colors, color) == colors

\* [c for c in self.recent_colors if c.name() != color.name()]
without(colors, color) ==
    SelectSeq(colors, LAMBDA c : color_name(c) # color_name(color))

\* the list add_recent_color leaves: the color first, then the others, and
\* the last one popped when there are more than max_recent_colors
added(colors, color) ==
    LET inserted == <<color>> \o without(colors, color)
    IN  IF Len(inserted) > max_recent_colors
        THEN SubSeq(inserted, 1, Len(inserted) - 1)
        ELSE inserted

\* DrawingPad.add_recent_color, called by pick_color with a valid color
add_recent_color ==
    \E color \in Colors :
        /\ recent_colors' = added(recent_colors, color)
        /\ ColorCalled("add_recent_color", color, "None")

\* DrawingPad.pick_color with the dialog cancelled: nothing is added
pick_color_cancelled ==
    /\ ~isValid(InvalidColor)
    /\ UNCHANGED recent_colors
    /\ ColorCalled("pick_color", InvalidColor, "None")

\* DrawingPad.select_recent_color: a button of the bar is clicked; the pen
\* takes the color and the list stays as it is
select_recent_color ==
    \E i \in 1..Len(recent_colors) :
        /\ UNCHANGED recent_colors
        /\ ColorCalled("select_recent_color", recent_colors[i], "None")

-----------------------------------------------------------------------------
(* The specifications                                                       *)

NoCall == [name |-> "init", arg |-> NoArgs, ret |-> None]

InitCanvas ==
    CanvasInit /\ SpellInit /\ VoiceInit({TRUE}) /\ FileInit /\ RestInit
    /\ call = NoCall

\* The whole canvas: images are uploaded, selected, moved, resized, reordered
\* and deleted.
NextCanvas ==
    \/ add_image(MaxMovedImages, MovedPixmaps)
    \/ mousePressEvent
    \/ mouseMoveEvent
    \/ mouseReleaseEvent
    \/ delete_selected_image
    \/ bring_to_front
    \/ send_to_back
    \/ bring_forward
    \/ send_backward
    \/ set_mode
    \/ clear_canvas

SpecCanvas == InitCanvas /\ [][NextCanvas]_vars

\* The layers of the canvas: images stay where add_image puts them.  The one
\* handler left out, mouseMoveEvent, changes x, y, width and height of the
\* selected image, drag_start_pos and has_drawn, none of which a layer
\* operation reads or writes.
NextLayers ==
    \/ add_image(MaxImages, Pixmaps)
    \/ mousePressEvent
    \/ mouseReleaseEvent
    \/ delete_selected_image
    \/ bring_to_front
    \/ send_to_back
    \/ bring_forward
    \/ send_backward
    \/ set_mode
    \/ clear_canvas

SpecLayers == InitCanvas /\ [][NextLayers]_vars

\* The editor with the spellcheck pipeline, after enable_spellcheck.
InitSpell ==
    SpellInit /\ CanvasInit /\ VoiceInit({TRUE}) /\ FileInit /\ RestInit
    /\ call = NoCall

NextSpell ==
    \/ Tick
    \/ keyPress
    \/ backspace
    \/ debounce_timeout
    \/ startup_timeout
    \/ replace_word
    \/ replace_timeout
    \/ ignore_word
    \/ add_to_dictionary
    \/ SpellCheckWorker_run
    \/ apply_highlights

SpecSpell == InitSpell /\ [][NextSpell]_vars

\* the texts of at most MaxLen typed characters
Texts == UNION {[1..n -> ApplyChars] : n \in 0..MaxLen}

\* apply_highlights alone: a check of any text is running (started by
\* highlight_misspelled_words, so _last_text_hash is that text's hash) while
\* the editor shows any text, cursor, selection and formatting.
InitApply ==
    /\ CanvasInit
    /\ VoiceInit({TRUE})
    /\ FileInit
    /\ RestInit
    /\ call = NoCall
    /\ text \in Texts
    /\ cursor \in [position : 0..Len(text), anchor : 0..Len(text)]
    /\ underlined \in SUBSET (0..(Len(text) - 1))
    /\ ignored_words = {}
    /\ dictionary = {}
    /\ \E checked \in Texts :
          /\ worker_ref = <<[text |-> checked, running |-> TRUE]>>
          /\ last_text_hash = str(hash(checked))
    /\ orphans = <<>>
    /\ results = <<>>
    /\ debounce = Inactive
    /\ startup = Inactive
    /\ replace_timers = <<>>
    /\ sinceChange = 0
    /\ burst = 0
    /\ modified = FALSE

NextApply ==
    \/ moveCursor
    \/ SpellCheckWorker_run
    \/ apply_highlights

SpecApply == InitApply /\ [][NextApply]_vars

\* the characters of the texts a worker is run on by itself
WorkerChars == {"a", "b", "A", " ", "1"}

\* the texts of at most MaxCheckedLen of these characters
WorkerTexts == UNION {[1..n -> WorkerChars] : n \in 0..MaxCheckedLen}

\* SpellCheckWorker.run alone: a check of any text is running (started by
\* highlight_misspelled_words on the editor's text), with any words ignored
\* (ignore_word adds them in lowercase) and any words in the dictionary.
InitWorker ==
    /\ CanvasInit
    /\ VoiceInit({TRUE})
    /\ FileInit
    /\ RestInit
    /\ call = NoCall
    /\ text \in WorkerTexts
    /\ cursor = [position |-> 0, anchor |-> 0]
    /\ underlined = {}
    /\ ignored_words \in SUBSET {<<"a">>, <<"a", "b">>}
    /\ dictionary \in SUBSET {<<"b">>, <<"a", "b">>}
    /\ worker_ref = <<[text |-> text, running |-> TRUE]>>
    /\ last_text_hash = str(hash(text))
    /\ orphans = <<>>
    /\ results = <<>>
    /\ debounce = Inactive
    /\ startup = Inactive
    /\ replace_timers = <<>>
    /\ sinceChange = 0
    /\ burst = 0
    /\ modified = FALSE

NextWorker == SpellCheckWorker_run

SpecWorker == InitWorker /\ [][NextWorker]_vars

\* voice dictation, with the libraries installed or not
InitVoice ==
    CanvasInit /\ SpellInit /\ VoiceInit(BOOLEAN) /\ FileInit /\ RestInit
    /\ call = NoCall

NextVoice ==
    \/ toggle_voice
    \/ stop_voice
    \/ stop_return
    \/ set_sensitivity
    \/ is_voice_active
    \/ VoiceWorker_run
    \/ VoiceWorker_loop
    \/ VoiceWorker_iteration
    \/ deliver

SpecVoice == InitVoice /\ [][NextVoice]_vars

\* voice dictation driven from the menu and the sensitivity dialog of main.py
NextMic ==
    \/ toggle_voice_ui
    \/ MicSensitivityDialog_update
    \/ stop_return
    \/ VoiceWorker_run
    \/ VoiceWorker_loop
    \/ VoiceWorker_iteration
    \/ deliver

SpecMic == InitVoice /\ [][NextMic]_vars

\* voice dictation with the progress the threads make by themselves: the main
\* thread goes on once stop() has returned, and a worker goes on at the head
\* of its loop and through its setup.  The loop body is left without
\* fairness: stream.read, listen and transcribe are blocking library calls.
SpecVoiceLive ==
    /\ InitVoice
    /\ [][NextVoice]_vars
    /\ WF_threadVars(stop_return)
    /\ WF_threadVars(VoiceWorker_loop)
    /\ WF_threadVars(VoiceWorker_run)

\* saving, between edits of the text and strokes on the canvas
NextFile ==
    \/ save_file
    \/ keyPress
    \/ backspace
    \/ mousePressEvent
    \/ mouseMoveEvent
    \/ mouseReleaseEvent
    \/ clear_canvas

SpecFile == InitCanvas /\ [][NextFile]_vars

\* the summarizer and the key it is given
NextSummary ==
    \/ set_token
    \/ save_token
    \/ summarize

SpecSummary == InitCanvas /\ [][NextSummary]_vars

\* the color bar of the drawing pad
NextColors ==
    \/ add_recent_color
    \/ pick_color_cancelled
    \/ select_recent_color

SpecColors == InitCanvas /\ [][NextColors]_vars

-----------------------------------------------------------------------------
(* The layers of the canvas                                                *)

\* the ids of the images, bottom layer first
IdSeq(imgs) == [i \in 1..Len(imgs) |-> imgs[i].id]

\* the list without the image of this id, order kept
Others(imgs, id) == SelectSeq(imgs, LAMBDA r : r.id # id)

\* the step just taken is a call of this handler
Did(name) == call'.name = name

\* C7: bring_to_front and send_to_back reorder only the selected image.  With
\* an image selected and in the list, bring_to_front makes it the last
\* element and send_to_back the first, the other images keep their relative
\* order, and the call returns True; with no image selected the call returns
\* False and the list is unchanged.
C7_ToFrontToBack ==
    [][ /\ Did("bring_to_front") /\ selected_in_list =>
            /\ call'.ret = "True"
            /\ Len(images') = Len(images)
            /\ images'[Len(images')] = selected_obj
            /\ Others(images', selected_image) = Others(images, selected_image)
        /\ Did("send_to_back") /\ selected_in_list =>
            /\ call'.ret = "True"
            /\ Len(images') = Len(images)
            /\ images'[1] = selected_obj
            /\ Others(images', selected_image) = Others(images, selected_image)
        /\ (Did("bring_to_front") \/ Did("send_to_back")) /\ selected_image = NoImage =>
            /\ call'.ret = "False"
            /\ images' = images
      ]_vars

\* C7's case: bring_to_front has moved the bottom image of three over the
\* other two.
C7_Witness ==
    /\ call.name = "bring_to_front"
    /\ call.ret = "True"
    /\ IdSeq(images) = <<2, 3, 1>>
    /\ selected_image = 1

\* C8: bring_forward swaps the selected image with the one directly above and
\* send_backward with the one directly below, returning True; at the top
\* (resp. bottom), or with nothing selected, the call returns False and the
\* list is unchanged; send_backward undoes a bring_forward that returned True.
C8_ForwardBackward ==
    [][ LET i == index(images, selected_image)
            n == Len(images)
        IN  /\ Did("bring_forward") /\ selected_in_list /\ i < n =>
                /\ call'.ret = "True"
                /\ Len(images') = n
                /\ images'[i + 1] = images[i]
                /\ images'[i] = images[i + 1]
                /\ \A j \in 1..n : j \notin {i, i + 1} => images'[j] = images[j]
                /\ index(images', selected_image') > 1
                /\ backward(images', selected_image') = images
            /\ Did("send_backward") /\ selected_in_list /\ i > 1 =>
                /\ call'.ret = "True"
                /\ Len(images') = n
                /\ images'[i - 1] = images[i]
                /\ images'[i] = images[i - 1]
                /\ \A j \in 1..n : j \notin {i, i - 1} => images'[j] = images[j]
            /\ Did("bring_forward") /\ (selected_image = NoImage \/ i = n) =>
                /\ call'.ret = "False"
                /\ images' = images
            /\ Did("send_backward") /\ (selected_image = NoImage \/ i = 1) =>
                /\ call'.ret = "False"
                /\ images' = images
      ]_vars

\* C8's case: bring_forward has moved the bottom image of three up by one
\* layer, not to the top.
C8_Witness ==
    /\ call.name = "bring_forward"
    /\ call.ret = "True"
    /\ IdSeq(images) = <<2, 1, 3>>
    /\ selected_image = 1

-----------------------------------------------------------------------------
(* The mouse on the canvas                                                 *)

\* the positions of the images that contain the point
Hits(imgs, pos) == {i \in 1..Len(imgs) : contains_point(imgs[i], pos)}

\* the handler that ran last is a left-button press in select mode (neither
\* the mode nor any rectangle changes in mousePressEvent)
LeftPressInSelect ==
    /\ call.name = "mousePressEvent"
    /\ call.arg.button = "left"
    /\ mode = "select"

\* C9: a left-button press in select mode selects the topmost image (highest
\* index) whose rectangle contains the point; if none does, the selection is
\* cleared: selected_image is None and no image has selected = True.
C9_HitTestTopmost ==
    LeftPressInSelect =>
        LET hits == Hits(images, call.arg.pos)
        IN  IF hits = {}
            THEN /\ selected_image = NoImage
                 /\ \A i \in 1..Len(images) : ~images[i].selected
            ELSE \E i \in hits :
                    /\ \A j \in hits : j <= i
                    /\ selected_image = images[i].id
                    /\ \A k \in 1..Len(images) : images[k].selected <=> (k = i)

\* C9's case: the pressed point lies in two images and the upper one is the
\* selected one.
C9_Witness ==
    /\ LeftPressInSelect
    /\ Hits(images, call.arg.pos) = {1, 2}
    /\ selected_image = images[2].id
    /\ images[2].selected /\ ~images[1].selected

\* C10: every mouse-move step of a resize drag leaves the image with width
\* max(20, requested width) and height max(20, requested height), where the
\* requested size is the old size plus the mouse's displacement, and leaves
\* its x, y position (and every other image) unchanged.
C10_ResizeMinimum ==
    [][ Did("mouseMoveEvent") /\ call'.arg.branch = "resize" =>
            LET i == index(images, selected_image)
                w == images[i].width + (call'.arg.pos[1] - drag_start_pos[1])
                h == images[i].height + (call'.arg.pos[2] - drag_start_pos[2])
            IN  /\ resizing_image
                /\ i # 0
                /\ images'[i].width = (IF w < 20 THEN 20 ELSE w)
                /\ images'[i].height = (IF h < 20 THEN 20 ELSE h)
                /\ images'[i].width >= 20 /\ images'[i].height >= 20
                /\ images'[i].x = images[i].x /\ images'[i].y = images[i].y
                /\ \A j \in 1..Len(images) : j # i => images'[j] = images[j]
                /\ Len(images') = Len(images)
      ]_vars

\* C10's case: a resize drag has asked for a size below 20x20 and the image
\* is 20x20.
C10_Witness ==
    /\ call.name = "mouseMoveEvent"
    /\ call.arg.branch = "resize"
    /\ call.arg.new_width < 20 /\ call.arg.new_height < 20
    /\ \E i \in 1..Len(images) :
          /\ images[i].id = selected_image
          /\ images[i].width = 20 /\ images[i].height = 20

-----------------------------------------------------------------------------
(* The spellcheck pipeline                                                  *)

\* the handlers that call highlight_misspelled_words
HighlightCallers ==
    {"debounce_timeout", "startup_timeout", "replace_timeout", "ignore_word",
     "add_to_dictionary"}

\* the SpellCheckWorker threads that are running
RunningSpellWorkers == Len(orphans) + (IF isRunning(worker_ref) THEN 1 ELSE 0)

\* C1: at most one SpellCheckWorker thread is running at any time, and when
\* highlight_misspelled_words returns the one running worker is the new one,
\* checking the editor's text: a worker that was still running has been
\* terminated and waited for.
C1_OneSpellCheckWorker ==
    /\ RunningSpellWorkers <= 1
    /\ call.name \in HighlightCallers =>
          /\ orphans = <<>>
          /\ worker_ref = <<[text |-> text, running |-> TRUE]>>

\* C1's case: highlight_misspelled_words was called while the previous worker
\* was still running.
C1_Witness ==
    /\ call.name \in HighlightCallers
    /\ call.arg.stopped
    /\ isRunning(worker_ref)

\* C3: apply_highlights changes the document's formatting only when the
\* editor's current text is the text the worker checked.
C3_AppliedOnlyToCheckedText ==
    (call.name = "apply_highlights" /\ call.ret = "formatted") =>
        call.arg.checked = text

\* C4: whenever apply_highlights reformats the document, the editor's cursor
\* position and anchor (so its selection) are what they were before the call,
\* and the text is unchanged; when it returns early, the formats are too.
C4_CursorPreserved ==
    [][ /\ Did("apply_highlights") /\ call'.ret = "formatted" =>
            /\ cursor'.position = cursor.position
            /\ cursor'.anchor = cursor.anchor
            /\ text' = text
        /\ Did("apply_highlights") /\ call'.ret = "returned" =>
            /\ cursor' = cursor /\ text' = text /\ underlined' = underlined
      ]_vars

\* C4's case: apply_highlights has underlined a word while the user holds a
\* selection.
C4_Witness ==
    /\ call.name = "apply_highlights"
    /\ call.ret = "formatted"
    /\ cursor.position # cursor.anchor
    /\ underlined # {}

\* C5: every textChanged restarts the single-shot 700 ms timer and starts no
\* check itself; the timer is pending exactly while there are changes no
\* debounced check has followed; the debounced check starts only from the
\* expired timer, at least 700 ms after the last textChanged, one per burst,
\* against the text as it is then.
C5_Debounced ==
    [][ /\ (debounce # Inactive) <=> (burst > 0)
        /\ call'.name \in {"keyPress", "backspace", "replace_word"} =>
            /\ debounce' = <<700>>
            /\ worker_ref' = worker_ref
        /\ Did("debounce_timeout") =>
            /\ debounce = <<0>>
            /\ sinceChange >= 700
            /\ burst >= 1
            /\ debounce' = Inactive /\ burst' = 0
            /\ text' = text
            /\ worker_ref' = <<[text |-> text, running |-> TRUE]>>
      ]_vars

\* C5's case: the debounced check has started after a burst of two or more
\* text changes.
C5_Witness ==
    /\ call.name = "debounce_timeout"
    /\ call.arg.burst = 2
    /\ debounce = Inactive
    /\ isRunning(worker_ref)

-----------------------------------------------------------------------------
(* Voice dictation                                                          *)

\* the VoiceWorker threads that are running, referenced or not
RunningVoiceWorkers == Cardinality({k \in ThreadIds : voice_isRunning(thread(k))})

\* the worker _voice_worker_ref refers to is running
RefRunning == voice_worker_ref # NoVoiceWorker /\ voice_isRunning(voice_worker_ref[1])

\* C2: at most one VoiceWorker thread is running at any time, whatever
\* toggle_voice, stop_voice and set_sensitivity calls are made: toggle_voice
\* starts a worker only when the worker _voice_worker_ref refers to (if any) is
\* not running, and then no worker at all is running; called while that
\* worker runs, it starts none and tells the running one to stop.
C2_OneVoiceWorker ==
    [][ /\ RunningVoiceWorkers <= 1
        /\ RunningVoiceWorkers' <= 1
        /\ Did("toggle_voice") /\ call'.ret = "True" =>
            /\ ~RefRunning
            /\ RunningVoiceWorkers = 0
            /\ RunningVoiceWorkers' = 1
        /\ Did("toggle_voice") /\ RefRunning =>
            /\ call'.ret # "True"
            /\ voice_worker_ref' = <<[voice_worker_ref[1] EXCEPT !.running = FALSE]>>
            /\ voice_orphans' = voice_orphans
      ]_vars

\* C2's case: toggle_voice was called while a worker was running, one that
\* had metered audio, and has stopped it.
C2_Witness ==
    /\ call.name = "toggle_voice"
    /\ call.ret = "False"
    /\ voice_worker_ref = NoVoiceWorker
    /\ voice_orphans = <<>>
    /\ level > 0

-----------------------------------------------------------------------------
(* Saving                                                                   *)

\* '<basename>_drawing.png' in the folder of each path of CurrentFiles
C6_DrawingBeside ==
    [p \in CurrentFiles |->
        CASE p = <<"/", "d", "/", "n", ".", "t", "x", "t">> ->
                 <<"/", "d", "/", "n", "_", "d", "r", "a", "w", "i", "n", "g", ".", "p", "n", "g">>
          [] p = <<"n", ".", "b">> ->
                 <<"n", "_", "d", "r", "a", "w", "i", "n", "g", ".", "p", "n", "g">>
          [] p = <<"/", "d", ".", "x", "/", "n">> ->
                 <<"/", "d", ".", "x", "/", "n", "_", "d", "r", "a", "w", "i", "n", "g", ".", "p", "n", "g">>]

\* C6: save_file called with a non-empty current_file writes the editor's
\* text to that file, clears the modified flag, writes the canvas as
\* '<basename>_drawing.png' in the same folder exactly when the drawing pad
\* reports has_drawing(), touches no other file, shows no file dialog and
\* returns the same path.
C6_SaveToCurrentFile ==
    [][ Did("save_file") /\ call'.arg.current_file # NoPath =>
          LET current_file == call'.arg.current_file
              png == C6_DrawingBeside[current_file]
              reports == call'.arg.drawing_pad /\ has_drawn
          IN  /\ current_file \in DOMAIN files'
              /\ files'[current_file] = text
              /\ text' = text
              /\ modified' = FALSE
              /\ reports =>
                    /\ png \in DOMAIN files'
                    /\ files'[png] = [format |-> "PNG", images |-> images, drawn |-> TRUE]
              /\ ~reports =>
                    /\ png \in DOMAIN files' <=> png \in DOMAIN files
                    /\ png \in DOMAIN files => files'[png] = files[png]
              /\ \A q \in DOMAIN files' \ {current_file, png} :
                    q \in DOMAIN files /\ files'[q] = files[q]
              /\ call'.ret = current_file
              /\ call'.arg.dialogs = 0
      ]_vars

\* C6's case: an edited, non-empty text and a drawing have been saved to
\* /d/n.txt, and nothing else has been written.
C6_Witness ==
    LET current_file == <<"/", "d", "/", "n", ".", "t", "x", "t">>
    IN  /\ call.name = "save_file"
        /\ call.arg.current_file = current_file
        /\ call.ret = current_file
        /\ call.arg.drawing_pad /\ has_drawn
        /\ text # <<>>
        /\ files[current_file] = text
        /\ C6_DrawingBeside[current_file] \in DOMAIN files
        /\ DOMAIN files = {current_file, C6_DrawingBeside[current_file]}
        /\ ~modified

\* C11: toggle_voice reports what it did.  It returns True exactly when it
\* started a new worker, which it does when the referenced worker (if any) is
\* not running; called while that worker runs it stops it and then returns
\* False.  After it has returned False, and after stop_voice has stopped a
\* running worker, _voice_worker_ref is None and is_voice_active() is False.
C11_ToggleReports ==
    [][ /\ Did("toggle_voice") =>
            \/ /\ call'.ret = "True"
               /\ ~RefRunning
               /\ voice_worker_ref' # voice_worker_ref
               /\ voice_worker_ref'[1].phase = "started"
               /\ RunningVoiceWorkers' = RunningVoiceWorkers + 1
            \/ /\ call'.ret = "stop.wait"
               /\ RefRunning
               /\ RunningVoiceWorkers' <= RunningVoiceWorkers
            \/ /\ call'.ret = "False"
               /\ voice_main = [pc |-> "stop.wait", fn |-> "toggle_voice"]
               /\ voice_worker_ref' = NoVoiceWorker
               /\ RunningVoiceWorkers' = 0
               /\ ~voice_active'
        /\ Did("stop_voice") /\ voice_main.pc = "stop.wait" =>
            /\ voice_worker_ref' = NoVoiceWorker
            /\ ~voice_active'
        /\ Did("is_voice_active") /\ voice_worker_ref = NoVoiceWorker =>
            call'.ret = "False"
      ]_vars

\* C11's case: a worker was started, dictated into the editor and was
\* stopped, and is_voice_active() has then been asked.
C11_Witness ==
    /\ call.name = "is_voice_active"
    /\ call.ret = "False"
    /\ voice_worker_ref = NoVoiceWorker
    /\ text # <<>>

\* C12: stopping dictation always completes: once toggle_voice or stop_voice
\* has begun to stop a running worker, the call eventually returns, even if
\* the worker never leaves a blocking library call.
C12_StopCompletes == (voice_main.pc = "stop.wait") ~> (voice_main = Idle)

\* the signals a step has emitted
Emitted == SubSeq(voice_signals', Len(voice_signals) + 1, Len(voice_signals'))

\* the worker _voice_worker_ref refers to is in the given phases
RefPhase(ref, phases) == ref # NoVoiceWorker /\ ref[1].phase \in phases

\* C13: the worker's loop survives the failures of an iteration: after a
\* listen timeout or any other exception in the loop body run() is back at the
\* head of the loop (the exception logged unless it is the timeout, no text
\* emitted), and from there enters the next iteration while running is True;
\* run() leaves the loop only at its head with running False.  A failure
\* before the loop emits error_occurred once, emits nothing else and ends the
\* thread; text_received is emitted only by an iteration that transcribed.
C13_LoopSurvives ==
    [][ /\ Did("VoiceWorker.iteration") =>
            /\ RefPhase(voice_worker_ref, {"iteration"})
            /\ RefPhase(voice_worker_ref', {"loop"})
            /\ call'.arg.logged <=> call'.arg.outcome \in {"read_error", "error"}
            /\ call'.arg.outcome # "transcribed" =>
                  \A i \in 1..Len(Emitted) : Emitted[i].signal = "audio_level"
        /\ Did("VoiceWorker.loop") =>
            /\ voice_worker_ref[1].running => RefPhase(voice_worker_ref', {"iteration"})
            /\ ~voice_worker_ref[1].running => RefPhase(voice_worker_ref', {"finished"})
        /\ RefPhase(voice_worker_ref, {"loop", "iteration"})
              /\ RefPhase(voice_worker_ref', {"finished"}) =>
            /\ Did("VoiceWorker.loop")
            /\ ~voice_worker_ref[1].running
        /\ Did("VoiceWorker.run") /\ call'.ret = "error" =>
            /\ RefPhase(voice_worker_ref, {"started"})
            /\ RefPhase(voice_worker_ref', {"finished"})
            /\ Emitted = <<[signal |-> "error_occurred", value |-> None]>>
        /\ RefPhase(voice_worker_ref, {"finished"}) => Emitted = <<>>
        /\ (\E i \in 1..Len(Emitted) : Emitted[i].signal = "text_received") =>
            Did("VoiceWorker.iteration") /\ call'.arg.outcome = "transcribed"
      ]_vars

\* C13's case: an iteration has failed with an exception other than the
\* timeout, after dictated text had reached the editor, and the worker is
\* back at the head of its loop, still told to run.
C13_Witness ==
    /\ call.name = "VoiceWorker.iteration"
    /\ call.arg.outcome = "error"
    /\ call.arg.logged
    /\ RefPhase(voice_worker_ref, {"loop"})
    /\ voice_worker_ref[1].running
    /\ text # <<>>

-----------------------------------------------------------------------------
(* The summarizer                                                           *)

\* the tokens of Tokens that are Groq keys once stripped, with the key
C14_GroqKey ==
    [token \in { <<"g", "s", "k", "_">>,
                 <<"g", "s", "k", "_", "a">>,
                 <<" ", "g", "s", "k", "_", "b", " ">> } |->
        IF token = <<" ", "g", "s", "k", "_", "b", " ">>
        THEN <<"g", "s", "k", "_", "b">> ELSE token]

\* C14: set_token accepts only Groq keys: for a token that, stripped, does
\* not start with gsk_ it returns False and leaves the client as it was (None
\* or the client configured before); for one that does it installs a client
\* for the stripped key and returns True.  The settings dialog saves and
\* hands on exactly such keys.
C14_SetToken ==
    [][ /\ Did("set_token") =>
            IF call'.arg.token \in DOMAIN C14_GroqKey
            THEN /\ call'.ret = "True"
                 /\ client' # NoClient
                 /\ client'[1].api_key = C14_GroqKey[call'.arg.token]
            ELSE /\ call'.ret = "False"
                 /\ client' = client
        /\ Did("save_token") =>
            IF call'.arg.token \in DOMAIN C14_GroqKey
            THEN /\ api_key' = C14_GroqKey[call'.arg.token]
                 /\ client' # NoClient
                 /\ client'[1].api_key = C14_GroqKey[call'.arg.token]
            ELSE /\ api_key' = api_key
                 /\ client' = client
      ]_vars

\* C14's case: with a client configured, set_token has refused a token that
\* has gsk_ inside but not at its start.
C14_Witness ==
    /\ call.name = "set_token"
    /\ call.arg.token = <<"a", "g", "s", "k", "_">>
    /\ call.ret = "False"
    /\ client # NoClient
    /\ client[1].api_key = <<"g", "s", "k", "_", "b">>

\* the letters of a text of SummaryTexts: its length once stripped
C15_Letters(t) == Cardinality({i \in 1..Len(t) : t[i] # " "})

\* the message summarize is to return for an exception with this text
C15_MessageFor(e) ==
    CASE e \in { <<"4", "0", "1">>,
                 <<"A", "u", "t", "h", "e", "n", "t", "i", "c", "a", "t", "i", "o", "n">>,
                 <<"I", "n", "v", "a", "l", "i", "d", " ", "A", "P", "I", " ", "K", "e", "y">>,
                 <<"4", "2", "9", " ", "4", "0", "1">> } ->
            [message |-> "API Error: Invalid Groq Key. Make sure it starts with 'gsk_'.",
             detail |-> <<>>]
      [] e \in { <<"R", "a", "t", "e", " ", "L", "i", "m", "i", "t">>, <<"4", "2", "9">> } ->
            [message |-> "Free tier limit reached. Please wait a minute and try again.",
             detail |-> <<>>]
      [] OTHER -> [message |-> "API Error: ", detail |-> e]

\* C15: summarize always returns a message and guards the remote call: with
\* no client it returns the 'enter your Groq API Key' message whatever the
\* text; with a client and a text that is empty or shorter than 10 characters
\* once stripped it returns the 'too short' message; the API is called only
\* when both guards pass, and an exception from the call comes back as the
\* invalid-key message, the rate-limit message or 'API Error: ...', tested in
\* that order.  The summarizer's client is left alone.
C15_Summarize ==
    [][ Did("summarize") =>
          LET t == call'.arg.text
              result == call'.ret
          IN  /\ client' = client
              /\ client = NoClient =>
                    /\ result.message = "Please enter your Groq API Key in Settings."
                    /\ ~call'.arg.api_called
              /\ client # NoClient /\ C15_Letters(t) < 10 =>
                    /\ result.message = "The text box is too short for me to explain!"
                    /\ ~call'.arg.api_called
              /\ client # NoClient /\ C15_Letters(t) >= 10 =>
                    /\ call'.arg.api_called
                    /\ call'.arg.outcome = "content" =>
                          /\ result.message = "content"
                          /\ result.detail \in {<<>>, <<"o", "k">>}
                    /\ call'.arg.outcome # "content" =>
                          result = C15_MessageFor(call'.arg.value)
      ]_vars

\* C15's case: the API was called and raised with a message that names both
\* 429 and 401; summarize has returned the invalid-key message.
C15_Witness ==
    /\ call.name = "summarize"
    /\ call.arg.api_called
    /\ call.arg.value = <<"4", "2", "9", " ", "4", "0", "1">>
    /\ call.ret.message = "API Error: Invalid Groq Key. Make sure it starts with 'gsk_'."
    /\ C15_Letters(call.arg.text) = 10
    /\ Len(call.arg.text) > 10

-----------------------------------------------------------------------------
(* Draw mode, deleting, recent colors                                       *)

\* no image is selected: neither selected_image nor a selected mark
NothingSelected(sel, imgs) ==
    sel = NoImage /\ \A i \in 1..Len(imgs) : ~imgs[i].selected

\* C16: draw mode ignores images: whenever mode is "draw", selected_image is
\* None and no image is marked selected, and a mouse press or move received in
\* draw mode leaves the images (positions, sizes, marks, order) and
\* selected_image as they are.
C16_DrawModeIgnoresImages ==
    [][ /\ mode = "draw" => NothingSelected(selected_image, images)
        /\ mode' = "draw" => NothingSelected(selected_image', images')
        /\ mode = "draw" /\ (Did("mousePressEvent") \/ Did("mouseMoveEvent")) =>
            /\ images' = images
            /\ selected_image' = selected_image
      ]_vars

\* C16's case: an image was grabbed in select mode, the mode was switched to
\* draw with the button still down, and the mouse has moved.
C16_Witness ==
    /\ mode = "draw"
    /\ call.name = "mouseMoveEvent"
    /\ dragging_image
    /\ leftDown
    /\ images # <<>>
    /\ has_drawn

\* C17: delete_selected_image removes exactly the selected image.  With an
\* image selected and in the list, the list afterwards is the previous list
\* without that image, the others unchanged and in their order, selected_image
\* is None and the call returns True; with nothing selected it returns False
\* and the list is unchanged.
C17_DeleteSelected ==
    [][ Did("delete_selected_image") =>
          IF selected_image # NoImage /\ selected_image \in Ids(images)
          THEN /\ images' = Others(images, selected_image)
               /\ Len(images') = Len(images) - 1
               /\ selected_image' = NoImage
               /\ call'.ret = "True"
          ELSE /\ selected_image = NoImage =>
                    /\ call'.ret = "False"
                    /\ images' = images
                    /\ selected_image' = selected_image
      ]_vars

\* C17's case: the selected image, neither the first nor the last of three,
\* has been deleted.
C17_Witness ==
    /\ call.name = "delete_selected_image"
    /\ call.ret = "True"
    /\ call.arg # NoImage
    /\ Len(images) = 2
    /\ images[1].id < call.arg
    /\ call.arg < images[2].id

\* the names of the colors of a list, in order
Names(colors) == [i \in 1..Len(colors) |-> color_name(colors[i])]

\* no two colors of the list have the same name
DistinctNames(colors) ==
    \A i, j \in 1..Len(colors) :
        color_name(colors[i]) = color_name(colors[j]) => i = j

\* C18: the recent-colors list is bounded and most-recent-first.  It holds at
\* most 5 colors, no two with the same name; after add_recent_color the added
\* color is at index 0, and re-adding a color whose name is in the list moves
\* it to the front without changing the list's length.
C18_RecentColors ==
    [][ /\ Len(recent_colors) <= 5 /\ DistinctNames(recent_colors)
        /\ Len(recent_colors') <= 5 /\ DistinctNames(recent_colors')
        /\ Did("add_recent_color") =>
            /\ recent_colors' # <<>>
            /\ recent_colors'[1] = call'.arg
            /\ (\E i \in 1..Len(recent_colors) :
                    color_name(recent_colors[i]) = color_name(call'.arg)) =>
                /\ Len(recent_colors') = Len(recent_colors)
                /\ SubSeq(Names(recent_colors'), 2, Len(recent_colors')) =
                       SelectSeq(Names(recent_colors),
                                 LAMBDA n : n # color_name(call'.arg))
      ]_vars

\* C18's case: with five colors in the list, the one that was last has been
\* added again with another alpha and is now first.
C18_Witness ==
    /\ call.name = "add_recent_color"
    /\ Len(recent_colors) = 5
    /\ recent_colors[1] = call.arg
    /\ call.arg.alpha = 128
    /\ Names(recent_colors) =
           <<"#ff0000", "#000000", "#00ff00", "#0000ff", "#ffff00">>

-----------------------------------------------------------------------------
(* The spellcheck worker's report                                           *)

\* text[start:end]
slice(t, start, end) == SubSeq(t, start + 1, end)

\* a word made of letters only
Alphabetic(w) == w # <<>> /\ \A i \in 1..Len(w) : IsLetter(w[i])

\* the word is one the worker reports: not ignored, not in the dictionary
Misspelt(w) == lower(w) \notin ignored_words /\ lower(w) \notin dictionary

\* text[start:end] is an occurrence of a word: letters only, and no letter,
\* digit or underscore next to it on either side
Occurrence(t, start, end) ==
    /\ 0 <= start /\ start < end /\ end <= Len(t)
    /\ Alphabetic(slice(t, start, end))
    /\ start = 0 \/ ~IsWordChar(t[start])
    /\ end = Len(t) \/ ~IsWordChar(t[end + 1])

\* C19: the spellcheck worker reports exactly the misspelled word
\* occurrences.  Every reported error (start, end, original) has
\* text[start:end] = original, original alphabetic, its lowercase form not in
\* ignored_words and not in the dictionary; and every occurrence of every
\* such word, in any case, is reported, once.
C19_WorkerReport ==
    [][ Did("SpellCheckWorker.run") =>
          LET r == results'[Len(results')]
              t == r.text
              errs == r.errors
          IN  /\ \A i \in 1..Len(errs) :
                    /\ Occurrence(t, errs[i].start, errs[i].end)
                    /\ slice(t, errs[i].start, errs[i].end) = errs[i].original
                    /\ Alphabetic(errs[i].original)
                    /\ Misspelt(errs[i].original)
              /\ \A start \in 0..Len(t), end \in 0..Len(t) :
                    Occurrence(t, start, end) /\ Misspelt(slice(t, start, end)) =>
                        \E i \in 1..Len(errs) :
                            /\ errs[i].start = start
                            /\ errs[i].end = end
              /\ \A i, j \in 1..Len(errs) : errs[i] = errs[j] => i = j
      ]_vars

\* C19's case: a word occurs twice, in two cases, with another word ignored;
\* both occurrences are reported, each with its own case.
C19_Witness ==
    /\ call.name = "SpellCheckWorker.run"
    /\ results # <<>>
    /\ results[1].text = <<"a", " ", "A">>
    /\ Len(results[1].errors) = 2
    /\ results[1].errors[1].original = <<"a">>
    /\ results[1].errors[2].original = <<"A">>
    /\ ignored_words = {<<"a", "b">>}

-----------------------------------------------------------------------------
(* The microphone sensitivity                                               *)

\* C20: the microphone-sensitivity mapping is inverted and bounded.  For every
\* slider value v of 0..100 the threshold handed to the voice worker is
\* 4000 - 39 v, the value of int(4000 - (v/100)*3900): it lies in 100..4000,
\* is 4000 at v = 0 and 100 at v = 100, and strictly decreases as v grows.
\* toggle_voice_ui starts a worker with the threshold of current_sensitivity;
\* moving the slider sets the threshold of the running worker, and changes no
\* worker when none is running.
C20_Sensitivity ==
    [][ /\ \A v \in 0..100 :
              /\ actual_sensitivity(v) = 4000 - 39 * v
              /\ actual_sensitivity(v) \in 100..4000
              /\ v < 100 => actual_sensitivity(v + 1) < actual_sensitivity(v)
        /\ actual_sensitivity(0) = 4000
        /\ actual_sensitivity(100) = 100
        /\ Did("toggle_voice_ui") /\ call'.ret = "True" =>
              voice_worker_ref'[1].energy_threshold =
                  4000 - 39 * current_sensitivity
        /\ Did("MicSensitivityDialog.update") =>
              /\ call'.arg.actual_value = 4000 - 39 * call'.arg.value
              /\ voice_orphans' = voice_orphans
              /\ IF voice_worker_ref # NoVoiceWorker
                    /\ voice_isRunning(voice_worker_ref[1])
                 THEN voice_worker_ref' =
                        <<[voice_worker_ref[1] EXCEPT
                             !.energy_threshold = call'.arg.actual_value]>>
                 ELSE voice_worker_ref' = voice_worker_ref
      ]_vars

\* C20's case: the slider was moved to 100 with a worker in its loop, which
\* now has the lowest threshold, after a move that found no worker running.
C20_Witness ==
    /\ call.name = "MicSensitivityDialog.update"
    /\ call.arg.value = 100
    /\ voice_worker_ref # NoVoiceWorker
    /\ voice_worker_ref[1].phase = "loop"
    /\ voice_worker_ref[1].energy_threshold = 100

\* the slider was moved with no worker running, and nothing changed
C20_WitnessIdle ==
    /\ call.name = "MicSensitivityDialog.update"
    /\ voice_worker_ref # NoVoiceWorker
    /\ voice_worker_ref[1].phase = "finished"
    /\ voice_worker_ref[1].energy_threshold = 2050

====
